---- MODULE Spec2Model ----
(***************************************************************************)
(* Model of iron_condor_app.py: the Streamlit script that fetches an       *)
(* option chain, lets the user pick the four legs of an iron condor,       *)
(* computes the strategy summary, the payoff curve and the per-leg Greeks. *)
(*                                                                         *)
(* Numbers.  Strikes, premiums and prices are integers (USD).  The time to *)
(* expiry T = days / 365 is carried as its number of days and the implied  *)
(* volatility sigma = IV% / 100 as its percentage: both scalings keep the  *)
(* sign and the zero, which is all the control flow of calculate_greeks    *)
(* depends on.  The real-valued Greeks of a successful call are carried as *)
(* a term over the call's arguments.                                       *)
(***************************************************************************)
EXTENDS Integers, Sequences, FiniteSets, TLC

VARIABLES
    pc,                 \* position of the script / which harness drives the functions
    option_chain,       \* set of [strike, expiration]; {} is the empty frame
    selected_expiry,    \* <<>> is None, <<d>> a date d days after today
    filtered_chain,
    live_price,
    strikes,            \* sorted sequence of the strikes on offer
    put_sell_strike, put_buy_strike, call_sell_strike, call_buy_strike,
    spot_price,
    put_sell_premium, put_buy_premium, call_sell_premium, call_buy_premium,
    risk_free_rate,     \* percent
    implied_vol,        \* percent
    total_credit, put_spread_width, call_spread_width,
    max_loss, break_even_low, break_even_high,
    days_to_expiry,
    price_range,        \* the argument of the last calculate_payoff call
    payoff,             \* its result, pointwise
    greeks_args,        \* the arguments of the last calculate_greeks call
    greeks_out,         \* its outcome
    greek_data,         \* outcome of the four calls of the Greeks summary
    interacted,         \* FALSE while every widget still shows its default
    calls               \* the most recent evaluations: [fn, args, env, out]

inputs == <<put_sell_strike, put_buy_strike, call_sell_strike, call_buy_strike,
            spot_price, put_sell_premium, put_buy_premium, call_sell_premium,
            call_buy_premium, risk_free_rate, implied_vol>>

summary == <<total_credit, put_spread_width, call_spread_width,
             max_loss, break_even_low, break_even_high, days_to_expiry>>

chain == <<option_chain, selected_expiry, filtered_chain, live_price, strikes>>

results == <<price_range, payoff, greeks_args, greeks_out, greek_data>>

vars == <<pc, chain, inputs, summary, results, interacted, calls>>

----------------------------------------------------------------------------
(* Bounds of the model *)

\* strikes on the grid 100000, 102000, ... (NumStrikes of them)
NumStrikes == 4
\* premiums 0, 1000, ..., 1000 * MaxPremium
MaxPremium == 2
\* expiries listed by the exchange lie 0 .. MaxDaysAhead days after today
MaxDaysAhead == 1
\* number of sample points of the price range
NumPoints == 11
\* number of evaluations kept for comparison
MaxCalls == 3

----------------------------------------------------------------------------
(* Values and helpers *)

None == "None"

Min(a, b) == IF a < b THEN a ELSE b
Max(a, b) == IF a > b THEN a ELSE b

StrikeGrid == {100000 + 2000 * i : i \in 0 .. NumStrikes - 1}
PremiumGrid == {1000 * i : i \in 0 .. MaxPremium}
PriceGrid == {97000 + 1000 * i : i \in 0 .. 2 * NumStrikes + 4}

\* sorted(set): the ascending sequence of the elements of S
RECURSIVE sorted(_)
sorted(S) ==
    IF S = {} THEN <<>>
    ELSE LET m == CHOOSE x \in S : \A y \in S : x <= y
         IN <<m>> \o sorted(S \ {m})

Range(s) == {s[i] : i \in 1 .. Len(s)}

----------------------------------------------------------------------------
(* Strategy calculations, lines 99-104 *)

TotalCreditPutSideOnly(psp, pbp, csp, cbp) == psp - pbp
TotalCredit(psp, pbp, csp, cbp) == (psp - pbp) + (csp - cbp)

PutSpreadWidth(ps, pb) == ps - pb

CallSpreadWidth(cb, cs) == cb - cs

MaxLossMin(psw, csw, tc) == Min(psw, csw) - tc
MaxLoss(psw, csw, tc) == Max(psw, csw) - tc

BreakEvenLowPlus(ps, tc) == ps + tc
BreakEvenLow(ps, tc) == ps - tc

BreakEvenHigh(cs, tc) == cs + tc

----------------------------------------------------------------------------
(* calculate_payoff, lines 114-119.  The function reads the module-level   *)
(* strikes, widths and total credit; only the price is an argument.        *)

put_payoff_wrong_strike(price) ==
    IF price < call_sell_strike
    THEN Min(put_sell_strike - price, put_spread_width) ELSE 0
put_payoff(price) ==
    IF price < put_sell_strike
    THEN Min(put_sell_strike - price, put_spread_width) ELSE 0

put_protection(price) ==
    IF price < put_buy_strike THEN put_buy_strike - price ELSE 0

call_payoff(price) ==
    IF price > call_sell_strike
    THEN Min(price - call_sell_strike, call_spread_width) ELSE 0

call_protection(price) ==
    IF price > call_buy_strike THEN price - call_buy_strike ELSE 0

calculate_payoff_cached(price) ==
    IF calls # <<>> /\ calls[Len(calls)].fn = "calculate_payoff"
                    /\ calls[Len(calls)].args = <<price>>
    THEN calls[Len(calls)].out[1]
    ELSE total_credit - (put_payoff(price) - put_protection(price)
                         + call_payoff(price) - call_protection(price))
calculate_payoff(price) ==
    total_credit - (put_payoff(price) - put_protection(price)
                    + call_payoff(price) - call_protection(price))

\* numpy applies the function pointwise to an array of prices
payoff_of(prices) == [i \in 1 .. Len(prices) |-> calculate_payoff(prices[i])]

\* np.linspace(spot - 10000, spot + 10000, n), to the nearest dollar below
linspace(lo, hi, n) ==
    [i \in 1 .. n |-> IF n = 1 THEN lo ELSE lo + ((i - 1) * (hi - lo)) \div (n - 1)]

\* the module-level names calculate_payoff reads
payoff_env ==
    <<put_sell_strike, put_buy_strike, call_sell_strike, call_buy_strike,
      put_spread_width, call_spread_width, total_credit>>

----------------------------------------------------------------------------
(* calculate_greeks, lines 44-66.  Python evaluates d1 (line 45) before    *)
(* the option type is looked at: S / K, math.log, math.sqrt(T) and the     *)
(* division by sigma * sqrt(T) each may raise.                             *)

ZeroDivisionError == [status |-> "raise", error |-> "ZeroDivisionError"]
MathDomainError == [status |-> "raise", error |-> "ValueError: math domain error"]
InvalidOptionType == [status |-> "raise", error |-> "ValueError: Invalid option type"]

Sign(x) == IF x > 0 THEN 1 ELSE IF x < 0 THEN -1 ELSE 0

\* the dictionary of line 61: the values are functions of the arguments
Greeks(S, K, T, r, sigma, option_type) ==
    [status |-> "return",
     delta_sign |-> IF option_type = "call" THEN 1 ELSE -1,
     gamma_sign |-> Sign(S) * Sign(sigma),
     vega_sign |-> Sign(S),
     of |-> <<S, K, T, r, sigma, option_type>>]

calculate_greeks(S, K, T, r, sigma, option_type) ==
    IF K = 0 THEN ZeroDivisionError                        \* S / K
    ELSE IF S = 0 \/ Sign(S) # Sign(K) THEN MathDomainError  \* math.log(S / K)
    ELSE IF T < 0 THEN MathDomainError                     \* math.sqrt(T)
    ELSE IF sigma = 0 \/ T = 0 THEN ZeroDivisionError      \* / (sigma * sqrt(T))
    ELSE IF option_type = "call" THEN Greeks(S, K, T, r, sigma, option_type)
    ELSE IF option_type = "put" THEN Greeks(S, K, T, r, sigma, option_type)
    ELSE InvalidOptionType

----------------------------------------------------------------------------
(* Defaults of the script *)

\* line 27: the spot used when the live price cannot be fetched
FallbackPrice == 107200

\* line 82: the strikes used when no option chain is available
FallbackStrikes == <<100000, 102000, 112000, 114000>>

\* line 111: days to expiry when no expiry is selected
DefaultDays == 7

\* lines 90-96: the values the number inputs start with
DefaultPremiums == [put_sell |-> 420, put_buy |-> 280, call_sell |-> 400, call_buy |-> 260]
DefaultRate == 5
DefaultIV == 25

\* lines 99-104, from the primed inputs
StrategyCalculations ==
    /\ total_credit' = TotalCredit(put_sell_premium', put_buy_premium',
                                   call_sell_premium', call_buy_premium')
    /\ put_spread_width' = PutSpreadWidth(put_sell_strike', put_buy_strike')
    /\ call_spread_width' = CallSpreadWidth(call_buy_strike', call_sell_strike')
    /\ max_loss' = MaxLoss(put_spread_width', call_spread_width', total_credit')
    /\ break_even_low' = BreakEvenLow(put_sell_strike', total_credit')
    /\ break_even_high' = BreakEvenHigh(call_sell_strike', total_credit')

\* the same calculations for an initial state
InitCalculations ==
    /\ total_credit = TotalCredit(put_sell_premium, put_buy_premium,
                                  call_sell_premium, call_buy_premium)
    /\ put_spread_width = PutSpreadWidth(put_sell_strike, put_buy_strike)
    /\ call_spread_width = CallSpreadWidth(call_buy_strike, call_sell_strike)
    /\ max_loss = MaxLoss(put_spread_width, call_spread_width, total_credit)
    /\ break_even_low = BreakEvenLow(put_sell_strike, total_credit)
    /\ break_even_high = BreakEvenHigh(call_sell_strike, total_credit)

NoChain ==
    /\ option_chain = {}
    /\ selected_expiry = <<>>
    /\ filtered_chain = {}
    /\ live_price = FallbackPrice
    /\ strikes = FallbackStrikes

NoResults ==
    /\ price_range = <<>>
    /\ payoff = <<>>
    /\ greeks_args = <<>>
    /\ greeks_out = None
    /\ greek_data = None
    /\ calls = <<>>

DefaultInputs ==
    /\ put_sell_strike = 102000
    /\ put_buy_strike = 100000
    /\ call_sell_strike = 112000
    /\ call_buy_strike = 114000
    /\ spot_price = FallbackPrice
    /\ put_sell_premium = DefaultPremiums.put_sell
    /\ put_buy_premium = DefaultPremiums.put_buy
    /\ call_sell_premium = DefaultPremiums.call_sell
    /\ call_buy_premium = DefaultPremiums.call_buy
    /\ risk_free_rate = DefaultRate
    /\ implied_vol = DefaultIV
    /\ days_to_expiry = DefaultDays
    /\ interacted = FALSE

----------------------------------------------------------------------------
(* calculate_payoff as a function of the condor: the four strikes and the  *)
(* four premiums are drawn from the grids (the select boxes of lines 85    *)
(* and 87 only offer a put buy strike below the put sell strike and a call *)
(* buy strike above the call sell strike), and the function is evaluated   *)
(* at one price after the other.                                           *)

InitPayoff ==
    /\ pc = "payoff"
    /\ NoChain
    /\ NoResults
    /\ put_sell_strike \in StrikeGrid
    /\ put_buy_strike \in {s \in StrikeGrid : s < put_sell_strike}
    /\ call_sell_strike \in StrikeGrid
    /\ call_buy_strike \in {s \in StrikeGrid : s > call_sell_strike}
    /\ spot_price = FallbackPrice
    /\ put_sell_premium \in PremiumGrid
    /\ put_buy_premium \in PremiumGrid
    /\ call_sell_premium \in PremiumGrid
    /\ call_buy_premium \in PremiumGrid
    /\ risk_free_rate = DefaultRate
    /\ implied_vol = DefaultIV
    /\ days_to_expiry = DefaultDays
    /\ interacted = TRUE
    /\ InitCalculations

EvalPayoff(p) ==
    /\ pc = "payoff"
    /\ price_range' = <<p>>
    /\ payoff' = payoff_of(price_range')
    /\ UNCHANGED <<pc, chain, inputs, summary, greeks_args, greeks_out,
                   greek_data, interacted, calls>>

NextPayoff == \E p \in PriceGrid \cup {break_even_low, break_even_high} : EvalPayoff(p)

SpecPayoff == InitPayoff /\ [][NextPayoff]_vars

----------------------------------------------------------------------------
(* calculate_greeks called directly with arguments of every kind *)

GreeksSpots == {0, 107200}
GreeksStrikes == {0, 102000}
GreeksDays == -1 .. MaxDaysAhead
GreeksRates == {0, 5}
GreeksVols == {-25, 0, 25}
OptionTypes == {"call", "put", "straddle"}

InitGreeks ==
    /\ pc = "greeks"
    /\ NoChain
    /\ NoResults
    /\ DefaultInputs
    /\ InitCalculations

CallGreeks(S, K, T, r, sigma, option_type) ==
    /\ pc = "greeks"
    /\ greeks_args' = <<S, K, T, r, sigma, option_type>>
    /\ greeks_out' = calculate_greeks(S, K, T, r, sigma, option_type)
    /\ UNCHANGED <<pc, chain, inputs, summary, price_range, payoff,
                   greek_data, interacted, calls>>

NextGreeks ==
    \E S \in GreeksSpots, K \in GreeksStrikes, T \in GreeksDays,
       r \in GreeksRates, sigma \in GreeksVols, option_type \in OptionTypes :
        CallGreeks(S, K, T, r, sigma, option_type)

SpecGreeks == InitGreeks /\ [][NextGreeks]_vars

----------------------------------------------------------------------------
(* Properties of calculate_payoff (SpecPayoff) *)

\* the strike ordering of an iron condor
Ordered ==
    /\ put_buy_strike < put_sell_strike
    /\ put_sell_strike <= call_sell_strike
    /\ call_sell_strike < call_buy_strike

Evaluated == 1 .. Len(price_range)

\* line 121: the prices the script evaluates
InDomain(p) == spot_price - 10000 <= p /\ p <= spot_price + 10000

\* C1: for an ordered condor, calculate_payoff(p) is exactly the total
\* credit at every price p with put_sell_strike <= p <= call_sell_strike.
C1_CreditBetweenSellStrikes ==
    Ordered =>
        \A i \in Evaluated :
            (put_sell_strike <= price_range[i] /\ price_range[i] <= call_sell_strike)
                => payoff[i] = total_credit

C1_Witness ==
    /\ pc = "payoff"
    /\ Ordered
    /\ total_credit # 0
    /\ \E i \in Evaluated :
        /\ put_sell_strike < price_range[i]
        /\ price_range[i] < call_sell_strike
        /\ payoff[i] = total_credit

\* C2 as stated: for an ordered condor, at every price of the evaluated
\* domain calculate_payoff(p) >= total_credit - max_loss.
C2_Original ==
    Ordered =>
        \A i \in Evaluated :
            InDomain(price_range[i]) => payoff[i] >= total_credit - max_loss

\* C2 as amended: for an ordered condor, at every price
\* calculate_payoff(p) >= -max_loss, the loss is capped by max_loss.
C2_LossCappedByMaxLoss ==
    Ordered => \A i \in Evaluated : payoff[i] >= - max_loss

C2_Witness ==
    /\ pc = "payoff"
    /\ Ordered
    /\ total_credit > 0
    /\ put_spread_width # call_spread_width
    /\ \E i \in Evaluated :
        /\ InDomain(price_range[i])
        /\ payoff[i] = - max_loss
        /\ payoff[i] < total_credit - max_loss

\* C3: for an ordered condor the payoff is flat beyond the long strikes:
\* total_credit - put_spread_width at every price p <= put_buy_strike and
\* total_credit - call_spread_width at every price p >= call_buy_strike.
C3_FlatBeyondLongStrikes ==
    Ordered =>
        \A i \in Evaluated :
            /\ price_range[i] <= put_buy_strike
                => payoff[i] = total_credit - put_spread_width
            /\ price_range[i] >= call_buy_strike
                => payoff[i] = total_credit - call_spread_width

\* C4 as stated: for an ordered condor with any premiums the payoff at
\* break_even_low and at break_even_high is zero.
C4_Original ==
    Ordered =>
        \A i \in Evaluated :
            /\ price_range[i] = break_even_low => payoff[i] = 0
            /\ price_range[i] = break_even_high => payoff[i] = 0

\* C4 as amended: for an ordered condor, the payoff at break_even_low is zero
\* when 0 <= total_credit <= put_spread_width, and the payoff at
\* break_even_high is zero when 0 <= total_credit <= call_spread_width.
C4_ZeroAtBreakEven ==
    Ordered =>
        \A i \in Evaluated :
            /\ (/\ price_range[i] = break_even_low
                /\ 0 <= total_credit
                /\ total_credit <= put_spread_width) => payoff[i] = 0
            /\ (/\ price_range[i] = break_even_high
                /\ 0 <= total_credit
                /\ total_credit <= call_spread_width) => payoff[i] = 0

C4_Witness ==
    /\ pc = "payoff"
    /\ Ordered
    /\ 0 < total_credit
    /\ total_credit < put_spread_width
    /\ price_range = <<break_even_low>>
    /\ payoff = <<0>>

\* C9: for an ordered condor the payoff never exceeds the total credit,
\* at any price.
C9_ProfitAtMostCredit ==
    Ordered => \A i \in Evaluated : payoff[i] <= total_credit

----------------------------------------------------------------------------
(* Properties of calculate_greeks (SpecGreeks) *)

GreeksCalled == pc = "greeks" /\ greeks_args # <<>>

\* C5: a call with an option type other than "call" or "put" fails with
\* the invalid-option-type error, whatever T, r and sigma are (here already
\* for a positive spot and a positive strike).
C5_InvalidTypeRejected ==
    (/\ GreeksCalled
     /\ greeks_args[1] > 0
     /\ greeks_args[2] > 0
     /\ greeks_args[6] \notin {"call", "put"})
        => greeks_out = InvalidOptionType

\* C6: a call with T <= 0 or sigma <= 0 ends in a failure and returns no
\* Greeks, for calls and for puts.
C6_NonPositiveFails ==
    (/\ GreeksCalled
     /\ greeks_args[6] \in {"call", "put"}
     /\ (greeks_args[3] <= 0 \/ greeks_args[5] <= 0))
        => greeks_out.status = "raise"

----------------------------------------------------------------------------
(* Repeated evaluations while the UI layer changes the parameters: every   *)
(* widget change reruns the script, which rebinds the module-level names   *)
(* (lines 84-104) that calculate_payoff reads.                             *)

Log(entry) ==
    IF Len(calls) < MaxCalls THEN Append(calls, entry)
    ELSE Append(Tail(calls), entry)

InitCalls ==
    /\ pc = "calls"
    /\ NoChain
    /\ NoResults
    /\ DefaultInputs
    /\ InitCalculations

SetParameters(ps, psp, spot) ==
    /\ pc = "calls"
    /\ put_sell_strike' = ps
    /\ put_sell_premium' = psp
    /\ spot_price' = spot
    /\ interacted' = TRUE
    /\ UNCHANGED <<put_buy_strike, call_sell_strike, call_buy_strike,
                   put_buy_premium, call_sell_premium, call_buy_premium,
                   risk_free_rate, implied_vol, days_to_expiry>>
    /\ StrategyCalculations
    /\ UNCHANGED <<pc, chain, results, calls>>

LoggedPayoff(p) ==
    /\ pc = "calls"
    /\ price_range' = <<p>>
    /\ payoff' = payoff_of(price_range')
    /\ calls' = Log([fn |-> "calculate_payoff", args |-> price_range',
                     env |-> payoff_env, out |-> payoff'])
    /\ UNCHANGED <<pc, chain, inputs, summary, greeks_args, greeks_out,
                   greek_data, interacted>>

LoggedGreeks(S, K, T, r, sigma, option_type) ==
    /\ pc = "calls"
    /\ greeks_args' = <<S, K, T, r, sigma, option_type>>
    /\ greeks_out' = calculate_greeks(S, K, T, r, sigma, option_type)
    /\ calls' = Log([fn |-> "calculate_greeks", args |-> greeks_args',
                     env |-> <<>>, out |-> greeks_out'])
    /\ UNCHANGED <<pc, chain, inputs, summary, price_range, payoff,
                   greek_data, interacted>>

NextCalls ==
    \/ \E ps \in {102000, 104000}, psp \in {420, 1420}, spot \in {107200, 108200} :
        SetParameters(ps, psp, spot)
    \/ \E p \in {101000, 107200} : LoggedPayoff(p)
    \/ \E K \in {102000, 112000}, T \in {0, DefaultDays} :
        LoggedGreeks(FallbackPrice, K, T, DefaultRate, DefaultIV, "put")

SpecCalls == InitCalls /\ [][NextCalls]_vars

Logged == 1 .. Len(calls)

SameInputsSameOutput ==
    \A i, j \in Logged :
        (/\ calls[i].fn = calls[j].fn
         /\ calls[i].args = calls[j].args
         /\ calls[i].env = calls[j].env)
            => calls[i].out = calls[j].out

----------------------------------------------------------------------------
(* The script, top to bottom (lines 68-158).  Streamlit runs it once per   *)
(* page load and again after every widget change.                          *)

\* st.selectbox(label, options, index=i) before the user touches it: the
\* option at Python index i (negative indices count from the end), None
\* when there are no options
selectbox(options, index) ==
    IF options = <<>> THEN None
    ELSE options[IF index >= 0 THEN index + 1 ELSE Len(options) + index + 1]

\* [s for s in strikes if s < x] and [s for s in strikes if s > x]
below(seq, x) == SelectSeq(seq, LAMBDA s : s < x)
above(seq, x) == SelectSeq(seq, LAMBDA s : s > x)

\* what the user may pick in a select box: any option, or None without options
pick(options) == IF options = <<>> THEN {None} ELSE Range(options)

\* values the live price source may report, and values the user may type
LivePrices == {103000}
PremiumInputs == {DefaultPremiums.put_sell, 1420}
VolInputs == {DefaultIV, 0}

Init ==
    /\ pc = "fetch"
    /\ option_chain = {}
    /\ selected_expiry = <<>>
    /\ filtered_chain = {}
    /\ live_price = None
    /\ strikes = <<>>
    /\ put_sell_strike = None
    /\ put_buy_strike = None
    /\ call_sell_strike = None
    /\ call_buy_strike = None
    /\ spot_price = None
    /\ put_sell_premium = None
    /\ put_buy_premium = None
    /\ call_sell_premium = None
    /\ call_buy_premium = None
    /\ risk_free_rate = None
    /\ implied_vol = None
    /\ total_credit = None
    /\ put_spread_width = None
    /\ call_spread_width = None
    /\ max_loss = None
    /\ break_even_low = None
    /\ break_even_high = None
    /\ days_to_expiry = None
    /\ interacted = FALSE
    /\ NoResults

\* lines 30-41 and 70-72: the chain is fetched (an empty frame on any
\* failure) and the user picks one of its expiry dates
FetchOptionChain ==
    /\ pc = "fetch"
    /\ \/ option_chain' = {}
       \/ \E E \in SUBSET (0 .. MaxDaysAhead) \ {{}}, S \in SUBSET StrikeGrid \ {{}} :
            option_chain' = [strike : S, expiration : E]
    /\ LET unique_expiries == {o.expiration : o \in option_chain'}
       IN IF unique_expiries = {} THEN selected_expiry' = <<>>
          ELSE \E d \in unique_expiries : selected_expiry' = <<d>>
    /\ pc' = "filter"
    /\ UNCHANGED <<filtered_chain, live_price, strikes, inputs, summary,
                   results, interacted, calls>>

\* lines 74-82, with fetch_live_btc_price of lines 22-27
FilterChain ==
    /\ pc = "filter"
    /\ filtered_chain' =
        IF selected_expiry # <<>>
        THEN {o \in option_chain : o.expiration = selected_expiry[1]}
        ELSE {}
    /\ live_price' \in LivePrices \cup {FallbackPrice}
    /\ strikes' =
        IF filtered_chain' # {} THEN sorted({o.strike : o \in filtered_chain'})
        ELSE FallbackStrikes
    /\ pc' = "sidebar"
    /\ UNCHANGED <<option_chain, selected_expiry, inputs, summary, results,
                   interacted, calls>>

\* lines 106-111
DaysToExpiry == IF selected_expiry # <<>> THEN selected_expiry[1] ELSE DefaultDays

\* lines 84-111: the widgets, the strategy calculations and the days to
\* expiry.  A select box whose default index is out of range raises, and a
\* select box without options yields None, on which line 100 or 101 raises.
Sidebar ==
    /\ pc = "sidebar"
    /\ IF Len(strikes) < 2
       THEN /\ pc' = "error"
            /\ UNCHANGED <<inputs, summary, interacted>>
       ELSE /\ interacted' \in BOOLEAN
            /\ put_sell_strike' \in
                 IF interacted' THEN Range(strikes) ELSE {selectbox(strikes, 1)}
            /\ put_buy_strike' \in
                 IF interacted' THEN pick(below(strikes, put_sell_strike'))
                 ELSE {selectbox(below(strikes, put_sell_strike'), 0)}
            /\ call_sell_strike' \in
                 IF interacted' THEN Range(strikes) ELSE {selectbox(strikes, -2)}
            /\ call_buy_strike' \in
                 IF interacted' THEN pick(above(strikes, call_sell_strike'))
                 ELSE {selectbox(above(strikes, call_sell_strike'), 0)}
            /\ spot_price' = live_price
            /\ put_sell_premium' \in
                 IF interacted' THEN PremiumInputs ELSE {DefaultPremiums.put_sell}
            /\ put_buy_premium' = DefaultPremiums.put_buy
            /\ call_sell_premium' = DefaultPremiums.call_sell
            /\ call_buy_premium' = DefaultPremiums.call_buy
            /\ risk_free_rate' = DefaultRate
            /\ implied_vol' \in IF interacted' THEN VolInputs ELSE {DefaultIV}
            /\ IF \/ below(strikes, put_sell_strike') = <<>>
                  \/ above(strikes, call_sell_strike') = <<>>
               THEN /\ pc' = "error"
                    /\ UNCHANGED summary
               ELSE /\ StrategyCalculations
                    /\ days_to_expiry' = DaysToExpiry
                    /\ pc' = "payoff_curve"
    /\ UNCHANGED <<chain, results, calls>>

\* lines 121-122
PayoffCurve ==
    /\ pc = "payoff_curve"
    /\ price_range' = linspace(spot_price - 10000, spot_price + 10000, NumPoints)
    /\ payoff' = payoff_of(price_range')
    /\ pc' = "greeks_display"
    /\ UNCHANGED <<chain, inputs, summary, greeks_args, greeks_out, greek_data,
                   interacted, calls>>

\* lines 126-131: the four legs in the order of the dictionary
legs ==
    << <<spot_price, put_sell_strike, days_to_expiry, risk_free_rate, implied_vol, "put">>,
       <<spot_price, put_buy_strike, days_to_expiry, risk_free_rate, implied_vol, "put">>,
       <<spot_price, call_sell_strike, days_to_expiry, risk_free_rate, implied_vol, "call">>,
       <<spot_price, call_buy_strike, days_to_expiry, risk_free_rate, implied_vol, "call">> >>

greeks_of(a) == calculate_greeks(a[1], a[2], a[3], a[4], a[5], a[6])

\* lines 125-133: the first call that raises ends the run
GreeksDisplay ==
    /\ pc = "greeks_display"
    /\ LET raising == {i \in 1 .. 4 : greeks_of(legs[i]).status = "raise"}
           first == CHOOSE i \in raising : \A j \in raising : i <= j
       IN IF raising # {}
          THEN /\ greeks_args' = legs[first]
               /\ greeks_out' = greeks_of(legs[first])
               /\ greek_data' = greeks_out'
               /\ pc' = "error"
          ELSE /\ greeks_args' = legs[4]
               /\ greeks_out' = greeks_of(legs[4])
               /\ greek_data' = [i \in 1 .. 4 |-> greeks_of(legs[i])]
               /\ pc' = "render"
    /\ UNCHANGED <<chain, inputs, summary, price_range, payoff, interacted, calls>>

\* lines 135-158: the chart and the strategy summary
Render ==
    /\ pc = "render"
    /\ pc' = "done"
    /\ UNCHANGED <<chain, inputs, summary, results, interacted, calls>>

\* a widget change or a reload runs the script again from the top
Rerun ==
    /\ pc \in {"done", "error"}
    /\ pc' = "fetch"
    /\ option_chain' = {}
    /\ selected_expiry' = <<>>
    /\ filtered_chain' = {}
    /\ live_price' = None
    /\ strikes' = <<>>
    /\ put_sell_strike' = None
    /\ put_buy_strike' = None
    /\ call_sell_strike' = None
    /\ call_buy_strike' = None
    /\ spot_price' = None
    /\ put_sell_premium' = None
    /\ put_buy_premium' = None
    /\ call_sell_premium' = None
    /\ call_buy_premium' = None
    /\ risk_free_rate' = None
    /\ implied_vol' = None
    /\ total_credit' = None
    /\ put_spread_width' = None
    /\ call_spread_width' = None
    /\ max_loss' = None
    /\ break_even_low' = None
    /\ break_even_high' = None
    /\ days_to_expiry' = None
    /\ interacted' = FALSE
    /\ price_range' = <<>>
    /\ payoff' = <<>>
    /\ greeks_args' = <<>>
    /\ greeks_out' = None
    /\ greek_data' = None
    /\ calls' = <<>>

Next ==
    \/ FetchOptionChain
    \/ FilterChain
    \/ Sidebar
    \/ PayoffCurve
    \/ GreeksDisplay
    \/ Render
    \/ Rerun

Spec == Init /\ [][Next]_vars

----------------------------------------------------------------------------
(* Properties of a run of the script (Spec) *)

AfterSidebar == {"payoff_curve", "greeks_display", "render", "done"}

C10_PositiveTimeToExpiry ==
    /\ pc \in AfterSidebar => days_to_expiry > 0
    /\ (pc = "error" /\ greeks_args # <<>>) => greeks_args[3] > 0

====
